---- MODULE Spec2Model ----
(***************************************************************************)
(* Credential lifecycle of the Connections feature: the OAuth initiation   *)
(* and callback routes, the connection store and the token refresh, as     *)
(* written in OAUTH_IMPLEMENTATION_GUIDE.md.                               *)
(*                                                                         *)
(* Time is Date.now() in milliseconds.  A token value is a record          *)
(* [ivs, body]: body is the plaintext, ivs the IVs of the encryption       *)
(* layers around it (empty: plaintext).  NullToken is null/undefined.      *)
(***************************************************************************)
EXTENDS Integers, Sequences, FiniteSets, TLC

\* ---------------------------------------------------------------- bounds
MaxTicks == 2
MaxIssued == 2
MaxCallbacks == 2
MaxStoreTicks == 1
MaxStoreOps == 3
MaxUiOps == 4

\* ------------------------------------------------------ program constants
maxAge == 600
bufferTime == 5 * 60 * 1000
TickMs == bufferTime

\* ------------------------------------------------------------- universes
Users == {"u1", "u2"}
SessionUsers == {"u1"}
RegisteredPlatforms == {"facebook", "twitter"}
PlatformIds == RegisteredPlatforms \cup {"tiktok"}
Null == "null"
NullDate == -1
IVs == {"iv1"}
Throws == "throws"
SaveIVs == IVs \cup {Throws}
Absent == -1
ExpiresInChoices == {Absent, 0, 200, 300}
AuthCodes == {Null, "abc123"}
ProviderErrors == {Null, "access_denied"}
Workers == {"tick", "manual"}
RoutePlatforms == {"facebook", "tiktok"}
StorePlatforms == {"facebook"}
StoreUsers == {"u1"}
CardPlatforms == {"facebook", "tiktok"}
PageQueries == {Null, "success=true", "error=invalid_state"}

\* lib/oauth/providers: the registry lookup; undefined for an unregistered id
getProviderConfig(platform) ==
    IF platform \in RegisteredPlatforms THEN platform ELSE Null

\* crypto.randomUUID(): the n-th value drawn, distinct from all earlier ones
randomUUID(n) == "uuid" \o ToString(n)

\* ---------------------------------------------------------------- tokens
NullToken == [ivs |-> <<>>, body |-> ""]
PlainToken(s) == [ivs |-> <<>>, body |-> s]
Truthy(tok) == tok.body # ""
IsPlain(tok) == tok.ivs = <<>>

\* an encryption that returns its argument
encryptToken_Identity(tok, iv) == tok

\* encryptToken: the IV and the ciphertext; one more layer around the value
encryptToken(tok, iv) == [ivs |-> <<iv>> \o tok.ivs, body |-> tok.body]

\* decryptToken: takes the outermost layer off
decryptToken(tok) ==
    IF tok.ivs = <<>> THEN tok ELSE [ivs |-> Tail(tok.ivs), body |-> tok.body]

VARIABLES
    now,            \* Date.now(), ms
    cookies,        \* the browser's cookie jar: user -> platform -> cookie
    nextUuid,       \* number of randomUUID() values drawn so far
    issued,         \* state values generated by the initiation route
    initResp,       \* the response the initiation route returned last
    cbCount,        \* callbacks handled so far
    lastCb,         \* the callback handled last: request and result
    uses,           \* per issued value: the state checks it was presented to
    exchangeCalls,  \* requests sent to a provider's token endpoint
    db,             \* social_connections, rows in insertion order
    tokCounter,     \* tokens the providers have minted so far
    workers,        \* the running refreshTokenIfNeeded calls
    refreshCalls,   \* row id -> requests sent to the provider's refresh grant
    lastRefresh,    \* row id -> how the latest refresh attempt ended
    storeOps,       \* connects, disconnects and refresh requests so far
    lastSave,       \* the saveConnection call of the step: how it ended
    lastCheck,      \* the refreshTokenIfNeeded call of the step: what it saw
    lastRevoke,     \* the revoke call of the step: the pair and the result
    query,          \* the query string the connections page was loaded with
    connectedPlatforms, \* ConnectionsList: the Set of connected platform ids
    connectedAccount,   \* platform id -> platform.connectedAccount is defined
    isConnecting,   \* ConnectionCard state, per card
    isRefreshing,   \* ConnectionCard state, per card
    pending,        \* per card: the onConnect/onRefresh/onDisconnect calls
                    \* that have not settled
    toasts,         \* the toasts shown since the page was loaded
    location,       \* window.location.href once assigned
    settled,        \* the callback that settled in the step, and how
    uiOps           \* page loads, renders and clicks so far

vars == <<now, cookies, nextUuid, issued, initResp, cbCount, lastCb, uses,
          exchangeCalls, db, tokCounter, workers, refreshCalls, lastRefresh,
          storeOps, lastSave, lastCheck, lastRevoke, query,
          connectedPlatforms, connectedAccount, isConnecting, isRefreshing,
          pending, toasts, location, settled, uiOps>>

routeVars == <<cookies, nextUuid, issued, initResp, cbCount, lastCb, uses,
               exchangeCalls>>
storeVars == <<db, tokCounter>>
opVars == <<storeOps>>
refreshVars == <<workers, refreshCalls, lastRefresh>>
uiVars == <<query, connectedPlatforms, connectedAccount, isConnecting,
            isRefreshing, pending, toasts, location, settled, uiOps>>
serverVars == <<now, cookies, nextUuid, issued, initResp, cbCount, lastCb,
                uses, exchangeCalls, db, tokCounter, workers, refreshCalls,
                lastRefresh, storeOps, lastSave, lastCheck, lastRevoke>>

\* lastSave, lastCheck and lastRevoke describe the step just taken: the
\* saveConnection, refreshTokenIfNeeded and revoke call made in it, if any
NoRevoke == [userId |-> Null, platform |-> Null, result |-> Null]
NoSave == [ivA |-> Null, ivR |-> Null, threw |-> FALSE]
NoCheck ==
    [id |-> 0, active |-> FALSE, expiresAt |-> NullDate, at |-> 0,
     called |-> FALSE]

\* --------------------------------------------------------------- cookies
NoCookie == [value |-> Null, expiresAt |-> NullDate]

\* request.cookies.get(name)?.value as the browser sends it: a cookie past
\* its maxAge is no longer in the jar
CookieValue(jar, platform, t) ==
    IF jar[platform].value # Null /\ t < jar[platform].expiresAt
    THEN jar[platform].value
    ELSE Null

\* the browser applying the Set-Cookie headers of a response
ApplySetCookie(jar, setCookies, t) ==
    [p \in PlatformIds |->
        IF p \in DOMAIN setCookies
        THEN IF setCookies[p].value = Null
             THEN NoCookie
             ELSE [value |-> setCookies[p].value,
                   expiresAt |-> t + setCookies[p].maxAge * 1000]
        ELSE jar[p]]

EmptyCookies == [p \in {} |-> NoCookie]

\* ------------------------------------------------- GET /api/auth/[platform]
\* The cookie is set on the first redirect object (`response`); the handler
\* then builds the authorization URL and returns a second, new redirect
\* object, which has no cookie.
InitiateDiscardedResponse(platform, state) ==
    [status |-> 307, platform |-> platform, location |-> "authorizationUrl",
     state |-> Null,
     cookies |-> [p \in {platform} |-> [value |-> state, maxAge |-> maxAge]]]

InitiateReturnedResponse(platform, state) ==
    [status |-> 307, platform |-> platform, location |-> "authUrl",
     state |-> state, cookies |-> EmptyCookies]

InvalidPlatformResponse(platform) ==
    [status |-> 400, platform |-> platform, location |-> Null,
     state |-> Null, cookies |-> EmptyCookies]

NoResponse ==
    [status |-> 0, platform |-> Null, location |-> Null,
     state |-> Null, cookies |-> EmptyCookies]

Initiate(u, platform) ==
    /\ nextUuid < MaxIssued
    /\ IF getProviderConfig(platform) = Null
       THEN /\ initResp' = InvalidPlatformResponse(platform)
            /\ UNCHANGED <<nextUuid, issued, cookies, uses>>
       ELSE LET state == randomUUID(nextUuid + 1)
                resp == InitiateReturnedResponse(platform, state)
            IN  /\ nextUuid' = nextUuid + 1
                /\ issued' = Append(issued,
                       [value |-> state, platform |-> platform,
                        user |-> u, at |-> now])
                /\ initResp' = resp
                /\ uses' = Append(uses, <<>>)
                /\ cookies' = [cookies EXCEPT
                       ![u] = ApplySetCookie(@, resp.cookies, now)]
    /\ UNCHANGED <<now, cbCount, lastCb, exchangeCalls, storeOps>>
    /\ UNCHANGED storeVars
    /\ UNCHANGED refreshVars
    /\ lastSave' = NoSave /\ lastCheck' = NoCheck /\ lastRevoke' = NoRevoke
    /\ UNCHANGED uiVars

\* ------------------------------------------------------- provider replies
\* what a provider's token endpoint answers: a non-2xx status, or the k-th
\* token it mints, with or without refresh_token and expires_in
FailedReply == [ok |-> FALSE, k |-> 0, hasRefresh |-> FALSE, expiresIn |-> Absent]
OkReply(k, hasRefresh, expiresIn) ==
    [ok |-> TRUE, k |-> k, hasRefresh |-> hasRefresh, expiresIn |-> expiresIn]
TokenReplies(k) ==
    {FailedReply} \cup
    {OkReply(k, hr, e) : hr \in BOOLEAN, e \in ExpiresInChoices}

\* the answers to an exchange that carry a refresh token
ConnectReplies(k) == {r \in TokenReplies(k) : r.ok /\ r.hasRefresh}

\* OAuthTokens as parsed from the reply body (utils.ts, the return statement)
ParseTokens(reply) ==
    [accessToken |-> PlainToken("at" \o ToString(reply.k)),
     refreshToken |-> IF reply.hasRefresh
                      THEN PlainToken("rt" \o ToString(reply.k))
                      ELSE NullToken,
     expiresIn |-> reply.expiresIn]
NoTokens ==
    [accessToken |-> NullToken, refreshToken |-> NullToken, expiresIn |-> Absent]

\* an exchange that sends its request a second time after a non-ok response
exchangeCodeForTokens_Retries(platform, code, reply) ==
    IF getProviderConfig(platform) = Null
    THEN [threw |-> "TypeError", requests |-> 0, tokens |-> NoTokens]
    ELSE IF ~reply.ok
         THEN [threw |-> "Token exchange failed", requests |-> 2,
               tokens |-> NoTokens]
         ELSE [threw |-> Null, requests |-> 1, tokens |-> ParseTokens(reply)]

\* exchangeCodeForTokens: with no provider for the platform, reading
\* provider.tokenUrl of undefined throws a TypeError before any request;
\* otherwise exactly one POST, and an Error on a non-ok response
exchangeCodeForTokens(platform, code, reply) ==
    IF getProviderConfig(platform) = Null
    THEN [threw |-> "TypeError", requests |-> 0, tokens |-> NoTokens]
    ELSE IF ~reply.ok
         THEN [threw |-> "Token exchange failed", requests |-> 1,
               tokens |-> NoTokens]
         ELSE [threw |-> Null, requests |-> 1, tokens |-> ParseTokens(reply)]

\* `x ? new Date(Date.now() + x * 1000) : null`: undefined and 0 are falsy
ExpiryFrom(expiresIn, t) ==
    IF expiresIn = Absent \/ expiresIn = 0 THEN NullDate ELSE t + expiresIn * 1000

\* -------------------------------------------------------- lib/db/connections
\* the argument the callback builds for saveConnection
ConnectionData(userId, platform, tokens, t) ==
    [userId |-> userId, platform |-> platform,
     accessToken |-> tokens.accessToken,
     refreshToken |-> tokens.refreshToken,
     tokenExpiresAt |-> ExpiryFrom(tokens.expiresIn, t),
     platformUserId |-> "acct-" \o platform]

\* saveConnection: one INSERT of a new row, isActive true; rows already
\* stored for the same (userId, platform) are not touched
saveConnection(rows, data, ivA, ivR, t) ==
    Append(rows,
        [id |-> Len(rows) + 1,
         userId |-> data.userId,
         platform |-> data.platform,
         accessToken |-> encryptToken(data.accessToken, ivA),
         refreshToken |-> IF Truthy(data.refreshToken)
                          THEN encryptToken(data.refreshToken, ivR)
                          ELSE NullToken,
         tokenExpiresAt |-> data.tokenExpiresAt,
         platformUserId |-> data.platformUserId,
         isActive |-> TRUE,
         connectedAt |-> t,
         lastRefreshedAt |-> NullDate])

\* getConnections: the user's active rows, accessToken decrypted
getConnections(rows, userId) ==
    LET Keep(r) == r.userId = userId /\ r.isActive
        Out(r) == [r EXCEPT !.accessToken = decryptToken(r.accessToken)]
    IN  [i \in 1..Len(SelectSeq(rows, Keep)) |-> Out(SelectSeq(rows, Keep)[i])]

\* --------------------------------------- GET /api/auth/[platform]/callback
\* callback/route.ts declares no `provider`: evaluating `provider.scopes`
\* while building the argument of saveConnection throws a ReferenceError
\* inside the try block, before saveConnection is called
CallbackProviderDeclared == FALSE

\* a state check that is skipped when the request carries no cookie
StateVerified_IgnoresMissing(storedState, state) ==
    storedState = Null \/ storedState = state

\* the state check of the callback
StateVerified(storedState, state) == storedState = state

\* a handler that does not look at the error parameter
HasError_Ignored(error) == FALSE

\* `if (error)`
HasError(error) == error # Null

\* the handler as a function of the request (query parameters, cookie) and
\* of what the provider and the profile endpoint answer; thrown is the
\* exception the catch block received
CallbackResult(userId, platform, code, state, error, stored, reply, profileOk, t) ==
    LET base == [user |-> userId, platform |-> platform, code |-> code,
                 state |-> state, error |-> error, stored |-> stored,
                 at |-> t, verified |-> FALSE, requests |-> 0,
                 replyOk |-> FALSE, profileOk |-> FALSE,
                 saved |-> FALSE, tokens |-> NoTokens, clearCookie |-> FALSE,
                 thrown |-> Null, outcome |-> Null]
        ex == exchangeCodeForTokens(platform, code, reply)
    IN  IF HasError(error)
        THEN [base EXCEPT !.outcome = error]
        ELSE IF code = Null \/ state = Null
        THEN [base EXCEPT !.outcome = "missing_parameters"]
        ELSE IF ~StateVerified(stored, state)
        THEN [base EXCEPT !.outcome = "invalid_state"]
        ELSE IF ex.threw # Null \/ ~profileOk \/ ~CallbackProviderDeclared
        THEN [base EXCEPT !.verified = TRUE, !.requests = ex.requests,
                          !.replyOk = (ex.threw = Null),
                          !.profileOk = (ex.threw = Null /\ profileOk),
                          !.thrown = IF ex.threw # Null THEN ex.threw
                                     ELSE IF ~profileOk THEN "profile failed"
                                     ELSE "ReferenceError",
                          !.outcome = "connection_failed"]
        ELSE [base EXCEPT !.verified = TRUE, !.requests = ex.requests,
                          !.replyOk = TRUE, !.profileOk = TRUE,
                          !.saved = TRUE, !.tokens = ex.tokens,
                          !.clearCookie = TRUE, !.outcome = "success"]

\* a callback that reaches the state check of the platform the value was
\* issued for, presenting that value
Presents(res, iss) ==
    /\ res.error = Null /\ res.code # Null
    /\ res.platform = iss.platform /\ res.user = iss.user
    /\ res.state = iss.value

NoCallback ==
    CallbackResult(Null, Null, Null, Null, "none", Null, FailedReply, FALSE, 0)

\* the value the initiation route generated last for (user, platform)
LatestIssued(u, platform) ==
    LET idx == {i \in 1..Len(issued) :
                  issued[i].user = u /\ issued[i].platform = platform}
    IN  IF idx = {} THEN Null
        ELSE issued[CHOOSE i \in idx : \A j \in idx : j <= i].value

LatestIssuedAt(u, platform) ==
    LET idx == {i \in 1..Len(issued) :
                  issued[i].user = u /\ issued[i].platform = platform}
    IN  IF idx = {} THEN NullDate
        ELSE issued[CHOOSE i \in idx : \A j \in idx : j <= i].at

\* the bookkeeping of a new row
NewRowBookkeeping ==
    /\ refreshCalls' = Append(refreshCalls, 0)
    /\ lastRefresh' = Append(lastRefresh, "none")

\* the request gets as far as the try block
ReachesExchange(code, state, error, storedState) ==
    /\ ~HasError(error) /\ code # Null /\ state # Null
    /\ StateVerified(storedState, state)

\* the provider and the profile endpoint answer only when they are asked
Answers(asked, k) ==
    IF asked
    THEN {<<r, ok>> : r \in TokenReplies(k), ok \in BOOLEAN}
    ELSE {<<FailedReply, FALSE>>}

\* encryptToken throws (a key of the wrong length, a cipher the runtime does
\* not have): the IV drawn for the pass stands for the outcome of the pass
EncryptThrows(iv) == iv = Throws

\* a save that goes on when an encryption pass has failed
saveConnectionThrows_Swallowed(data, ivA, ivR) == FALSE

\* saveConnection evaluates encryptToken(data.accessToken), then
\* encryptToken(data.refreshToken) when there is one, as arguments of
\* values(...): a throw of either leaves saveConnection before db.insert
saveConnectionThrows(data, ivA, ivR) ==
    \/ EncryptThrows(ivA)
    \/ Truthy(data.refreshToken) /\ EncryptThrows(ivR)

\* the result of a handler whose saveConnection threw: the catch block
SaveFailed(res) ==
    [res EXCEPT !.saved = FALSE, !.clearCookie = FALSE,
                !.thrown = "encryption failed",
                !.outcome = "connection_failed"]

\* the handler run on one request; storedState is the value of the cookie
\* oauth_state_<platform> the request carries, browser tells whether the
\* response goes to the browser whose cookie jar the model keeps
HandleCallback(u, platform, code, state, error, storedState, browser, ivA, ivR) ==
    /\ cbCount < MaxCallbacks
    /\ \E ans \in Answers(ReachesExchange(code, state, error, storedState),
                          tokCounter + 1) :
          LET reply == ans[1]
              run == CallbackResult(u, platform, code, state, error,
                                    storedState, reply, ans[2], now)
              data == ConnectionData(u, platform, run.tokens, now)
              res == IF run.saved /\ saveConnectionThrows(data, ivA, ivR)
                     THEN SaveFailed(run) ELSE run
          IN  /\ cbCount' = cbCount + 1
              /\ lastCb' = res
              /\ lastSave' = IF run.saved
                             THEN [ivA |-> ivA, ivR |-> ivR,
                                   threw |-> ~res.saved]
                             ELSE NoSave
              /\ uses' = [i \in 1..Len(uses) |->
                            IF Presents(res, issued[i])
                            THEN Append(uses[i],
                                   [verified |-> res.verified,
                                    age |-> res.at - issued[i].at,
                                    latest |-> issued[i].value =
                                               LatestIssued(u, platform)])
                            ELSE uses[i]]
              /\ exchangeCalls' = exchangeCalls + res.requests
              /\ tokCounter' = IF res.requests > 0 /\ reply.ok
                               THEN tokCounter + 1 ELSE tokCounter
              /\ IF res.saved
                 THEN /\ db' = saveConnection(db, data, ivA, ivR, now)
                      /\ NewRowBookkeeping
                 ELSE UNCHANGED <<db, refreshCalls, lastRefresh>>
              /\ cookies' = IF res.clearCookie /\ browser
                            THEN [cookies EXCEPT ![u] = ApplySetCookie(@,
                                    [p \in {platform} |->
                                        [value |-> Null, maxAge |-> 0]], now)]
                            ELSE cookies
    /\ UNCHANGED <<now, nextUuid, issued, initResp, workers, storeOps>>
    /\ lastCheck' = NoCheck /\ lastRevoke' = NoRevoke
    /\ UNCHANGED uiVars

\* a callback request sent by the user's browser: the cookie is the one the
\* browser's jar holds for the platform
Callback(u, platform, code, state, error, ivA, ivR) ==
    HandleCallback(u, platform, code, state, error,
                   CookieValue(cookies[u], platform, now), TRUE, ivA, ivR)

\* a callback request of any other client (a script, a command line): its
\* Cookie header is whatever the sender writes into it
DirectCallback(u, platform, code, state, error, stored, ivA, ivR) ==
    HandleCallback(u, platform, code, state, error, stored, FALSE, ivA, ivR)

\* ------------------------------------------------- the store's operations
\* a connect that got through to saveConnection: the provider's k-th token,
\* stored for (u, platform) at the current time, unless an encryption pass
\* throws
Connect(u, platform, reply, ivA, ivR) ==
    /\ storeOps < MaxStoreOps
    /\ storeOps' = storeOps + 1
    /\ reply.ok
    /\ tokCounter' = tokCounter + 1
    /\ LET data == ConnectionData(u, platform, ParseTokens(reply), now)
           threw == saveConnectionThrows(data, ivA, ivR)
       IN  /\ lastSave' = [ivA |-> ivA, ivR |-> ivR, threw |-> threw]
           /\ IF threw
              THEN UNCHANGED <<db, refreshCalls, lastRefresh>>
              ELSE /\ db' = saveConnection(db, data, ivA, ivR, now)
                   /\ NewRowBookkeeping
    /\ lastCheck' = NoCheck /\ lastRevoke' = NoRevoke
    /\ UNCHANGED <<now, workers>>
    /\ UNCHANGED routeVars
    /\ UNCHANGED uiVars

\* a revoke that clears the flag of every credential of the user
revoke_WholeUser(rows, userId, platform) ==
    [i \in 1..Len(rows) |->
        IF rows[i].userId = userId
        THEN [rows[i] EXCEPT !.isActive = FALSE]
        ELSE rows[i]]

\* revoke(user, platform): clears the active flag of the pair's rows; the
\* rows stay
revoke(rows, userId, platform) ==
    [i \in 1..Len(rows) |->
        IF rows[i].userId = userId /\ rows[i].platform = platform
        THEN [rows[i] EXCEPT !.isActive = FALSE]
        ELSE rows[i]]

\* what revoke returns: NotFound when the pair has no active credential
revokeResult(rows, userId, platform) ==
    IF \E i \in 1..Len(rows) :
          /\ rows[i].userId = userId
          /\ rows[i].platform = platform
          /\ rows[i].isActive
    THEN "Ok" ELSE "NotFound"

Disconnect(u, platform) ==
    /\ storeOps < MaxStoreOps
    /\ storeOps' = storeOps + 1
    /\ db' = revoke(db, u, platform)
    /\ lastRevoke' = [userId |-> u, platform |-> platform,
                      result |-> revokeResult(db, u, platform)]
    /\ lastSave' = NoSave /\ lastCheck' = NoCheck
    /\ UNCHANGED <<now, tokCounter>>
    /\ UNCHANGED routeVars
    /\ UNCHANGED refreshVars
    /\ UNCHANGED uiVars

\* -------------------------------------------------- lib/oauth/token-refresh
NoConnection ==
    [id |-> 0, userId |-> Null, platform |-> Null, accessToken |-> NullToken,
     refreshToken |-> NullToken, tokenExpiresAt |-> NullDate,
     platformUserId |-> Null, isActive |-> FALSE, connectedAt |-> NullDate,
     lastRefreshedAt |-> NullDate]
NoPatch ==
    [accessToken |-> NullToken, refreshToken |-> NullToken,
     tokenExpiresAt |-> NullDate]
IdleWorker ==
    [pc |-> "idle", conn |-> NoConnection, newTokens |-> NoTokens,
     patch |-> NoPatch]

\* NeedsRefresh with the boundary on the wrong side
NeedsRefresh_AtBoundary(connection, t) ==
    /\ connection.tokenExpiresAt # NullDate
    /\ connection.tokenExpiresAt - t <= bufferTime

\* refreshTokenIfNeeded up to its first await: does this call refresh?
NeedsRefresh(connection, t) ==
    /\ connection.tokenExpiresAt # NullDate
    /\ connection.tokenExpiresAt - t < bufferTime

\* the second argument of updateConnection
RefreshPatch(connection, newTokens, t) ==
    [accessToken |-> newTokens.accessToken,
     refreshToken |-> IF Truthy(newTokens.refreshToken)
                      THEN newTokens.refreshToken
                      ELSE connection.refreshToken,
     tokenExpiresAt |-> ExpiryFrom(newTokens.expiresIn, t)]

\* updateConnection(id, fields): the row with that id takes the given
\* fields, token fields encrypted as the store does on every write
updateConnection(rows, id, fields, ivA, ivR) ==
    [i \in 1..Len(rows) |->
        IF rows[i].id = id
        THEN [rows[i] EXCEPT
                !.accessToken = encryptToken(fields.accessToken, ivA),
                !.refreshToken = IF Truthy(fields.refreshToken)
                                 THEN encryptToken(fields.refreshToken, ivR)
                                 ELSE NullToken,
                !.tokenExpiresAt = fields.tokenExpiresAt]
        ELSE rows[i]]

\* the connections a caller can hand to refreshTokenIfNeeded
Readable ==
    UNION {{getConnections(db, u)[i] : i \in 1..Len(getConnections(db, u))}
           : u \in Users}

\* what a call of refreshTokenIfNeeded saw and did: the row's active flag
\* and the connection's expiry at the moment of the call, and whether the
\* refresh request was sent
CheckOf(connection, called) ==
    [id |-> connection.id, active |-> db[connection.id].isActive,
     expiresAt |-> connection.tokenExpiresAt, at |-> now, called |-> called]

\* a call of refreshTokenIfNeeded(connection) that decides to refresh and
\* sends the refresh request
RefreshBegin(w, connection) ==
    /\ workers[w].pc = "idle"
    /\ connection \in Readable
    /\ NeedsRefresh(connection, now)
    /\ storeOps < MaxStoreOps
    /\ storeOps' = storeOps + 1
    /\ workers' = [workers EXCEPT
          ![w] = [pc |-> "calling", conn |-> connection,
                  newTokens |-> NoTokens, patch |-> NoPatch]]
    /\ refreshCalls' = [refreshCalls EXCEPT ![connection.id] = @ + 1]
    /\ lastCheck' = CheckOf(connection, TRUE)
    /\ lastSave' = NoSave /\ lastRevoke' = NoRevoke
    /\ UNCHANGED <<now, lastRefresh>>
    /\ UNCHANGED routeVars
    /\ UNCHANGED storeVars
    /\ UNCHANGED uiVars

\* a call of refreshTokenIfNeeded(connection) that decides not to refresh:
\* it returns connection.accessToken, no request, no write
RefreshSkip(w, connection) ==
    /\ workers[w].pc = "idle"
    /\ connection \in Readable
    /\ ~NeedsRefresh(connection, now)
    /\ lastCheck' = CheckOf(connection, FALSE)
    /\ lastSave' = NoSave /\ lastRevoke' = NoRevoke
    /\ UNCHANGED <<now, storeOps>>
    /\ UNCHANGED routeVars
    /\ UNCHANGED storeVars
    /\ UNCHANGED refreshVars
    /\ UNCHANGED uiVars

\* a failure handler that gives the credential up whatever the cause
RefreshFails_Deactivates(w, cause) ==
    /\ workers[w].pc = "calling"
    /\ workers' = [workers EXCEPT ![w] = IdleWorker]
    /\ lastRefresh' = [lastRefresh EXCEPT ![workers[w].conn.id] = cause]
    /\ db' = [db EXCEPT ![workers[w].conn.id].isActive = FALSE]
    /\ UNCHANGED <<now, tokCounter, refreshCalls, storeOps>>
    /\ UNCHANGED routeVars
    /\ lastSave' = NoSave /\ lastCheck' = NoCheck /\ lastRevoke' = NoRevoke
    /\ UNCHANGED uiVars

\* refreshAccessToken rejects (the provider refused the refresh token, or
\* the request failed or timed out): the exception leaves
\* refreshTokenIfNeeded, nothing is written
RefreshFails(w, cause) ==
    /\ workers[w].pc = "calling"
    /\ workers' = [workers EXCEPT ![w] = IdleWorker]
    /\ lastRefresh' = [lastRefresh EXCEPT ![workers[w].conn.id] = cause]
    /\ UNCHANGED <<now, refreshCalls, storeOps>>
    /\ UNCHANGED routeVars
    /\ UNCHANGED storeVars
    /\ lastSave' = NoSave /\ lastCheck' = NoCheck /\ lastRevoke' = NoRevoke
    /\ UNCHANGED uiVars

\* refreshAccessToken resolves: the update is built with the time of that
\* moment and handed to updateConnection
RefreshReplies(w, reply) ==
    /\ workers[w].pc = "calling"
    /\ reply.ok
    /\ workers' = [workers EXCEPT
          ![w] = [@ EXCEPT !.pc = "updating",
                           !.newTokens = ParseTokens(reply),
                           !.patch = RefreshPatch(workers[w].conn,
                                                  ParseTokens(reply), now)]]
    /\ tokCounter' = tokCounter + 1
    /\ UNCHANGED <<now, db, refreshCalls, lastRefresh, storeOps>>
    /\ UNCHANGED routeVars
    /\ lastSave' = NoSave /\ lastCheck' = NoCheck /\ lastRevoke' = NoRevoke
    /\ UNCHANGED uiVars

\* updateConnection takes effect; refreshTokenIfNeeded returns
RefreshCommit(w, ivA, ivR) ==
    /\ workers[w].pc = "updating"
    /\ db' = updateConnection(db, workers[w].conn.id, workers[w].patch, ivA, ivR)
    /\ lastRefresh' = [lastRefresh EXCEPT ![workers[w].conn.id] = "ok"]
    /\ workers' = [workers EXCEPT ![w] = IdleWorker]
    /\ UNCHANGED <<now, tokCounter, refreshCalls, storeOps>>
    /\ UNCHANGED routeVars
    /\ lastSave' = NoSave /\ lastCheck' = NoCheck /\ lastRevoke' = NoRevoke
    /\ UNCHANGED uiVars

\* ------------------------------------------------------------------ time
Tick(limit) ==
    /\ now < limit * TickMs
    /\ now' = now + TickMs
    /\ UNCHANGED opVars
    /\ UNCHANGED routeVars
    /\ UNCHANGED storeVars
    /\ UNCHANGED refreshVars
    /\ lastSave' = NoSave /\ lastCheck' = NoCheck /\ lastRevoke' = NoRevoke
    /\ UNCHANGED uiVars

\* ------------------------------------------- the connections page (UI)
\* platform.name of the mock data
PlatformName(p) ==
    IF p = "facebook" THEN "Facebook"
    ELSE IF p = "twitter" THEN "X (Twitter)"
    ELSE IF p = "tiktok" THEN "TikTok"
    ELSE p

NoPending == [connect |-> 0, refresh |-> 0, disconnect |-> 0]
NoSettle == [platform |-> Null, action |-> Null, outcome |-> Null]
Toast(kind, text) == [kind |-> kind, text |-> text]

\* the card renders its connected branch: Refresh and Disconnect
ConnectedView(p) == p \in connectedPlatforms /\ connectedAccount[p]

\* a Connect button that stays enabled
ConnectDisabled_Never(p) == FALSE

\* disabled={isConnecting}
ConnectDisabled(p) == isConnecting[p]

\* disabled={isRefreshing}
RefreshDisabled(p) == isRefreshing[p]

\* a list whose handleConnect records the platform in its local state
listHandleConnect_AddsLocal(set, platformId) == set \cup {platformId}

\* ConnectionsList.handleConnect: connectedPlatforms after the call; the
\* handler assigns window.location.href and never calls
\* setConnectedPlatforms
listHandleConnect(set, platformId) == set

\* const connectedCount = connectedPlatforms.size; the list shows its
\* "<n> Connected" badge when the count is positive
connectedCount == Cardinality(connectedPlatforms)

\* ConnectionsList.handleDisconnect: connectedPlatforms after the call
listHandleDisconnect(set, platformId) == set \ {platformId}

\* the page is loaded (first visit, reload, or the callback's redirect):
\* ConnectionsPage and ConnectionsList mount with fresh state; neither
\* reads the query string, so nothing is shown for it
LoadPage(q) ==
    /\ uiOps < MaxUiOps
    /\ uiOps' = uiOps + 1
    /\ query' = q
    /\ connectedPlatforms' = {}
    /\ connectedAccount' = [p \in CardPlatforms |-> FALSE]
    /\ isConnecting' = [p \in CardPlatforms |-> FALSE]
    /\ isRefreshing' = [p \in CardPlatforms |-> FALSE]
    /\ pending' = [p \in CardPlatforms |-> NoPending]
    /\ toasts' = <<>>
    /\ location' = Null
    /\ settled' = NoSettle
    /\ UNCHANGED serverVars

\* a parent that renders the card as connected: isConnected true and a
\* platform with connectedAccount
ParentRenders(p) ==
    /\ uiOps < MaxUiOps
    /\ uiOps' = uiOps + 1
    /\ ~ConnectedView(p)
    /\ connectedPlatforms' = connectedPlatforms \cup {p}
    /\ connectedAccount' = [connectedAccount EXCEPT ![p] = TRUE]
    /\ settled' = NoSettle
    /\ UNCHANGED <<query, isConnecting, isRefreshing, pending, toasts,
                   location>>
    /\ UNCHANGED serverVars

\* a click on Connect: the card's handleConnect up to its await, and the
\* list's handleConnect it calls
ClickConnect(p) ==
    /\ uiOps < MaxUiOps
    /\ uiOps' = uiOps + 1
    /\ ~ConnectedView(p)
    /\ ~ConnectDisabled(p)
    /\ isConnecting' = [isConnecting EXCEPT ![p] = TRUE]
    /\ pending' = [pending EXCEPT ![p].connect = @ + 1]
    /\ location' = "/api/auth/" \o p
    /\ connectedPlatforms' = listHandleConnect(connectedPlatforms, p)
    /\ settled' = NoSettle
    /\ UNCHANGED <<query, connectedAccount, isRefreshing, toasts>>
    /\ UNCHANGED serverVars

\* onConnect resolved: handleConnect ends, isConnecting stays true
ConnectResolves(p) ==
    /\ pending[p].connect > 0
    /\ pending' = [pending EXCEPT ![p].connect = @ - 1]
    /\ settled' = [platform |-> p, action |-> "connect",
                   outcome |-> "resolved"]
    /\ UNCHANGED <<query, connectedPlatforms, connectedAccount, isConnecting,
                   isRefreshing, toasts, location, uiOps>>
    /\ UNCHANGED serverVars

\* onConnect threw: the catch block of handleConnect
ConnectThrows(p) ==
    /\ pending[p].connect > 0
    /\ pending' = [pending EXCEPT ![p].connect = @ - 1]
    /\ toasts' = Append(toasts,
          Toast("error", "Failed to connect " \o PlatformName(p)))
    /\ isConnecting' = [isConnecting EXCEPT ![p] = FALSE]
    /\ settled' = [platform |-> p, action |-> "connect", outcome |-> "threw"]
    /\ UNCHANGED <<query, connectedPlatforms, connectedAccount, isRefreshing,
                   location, uiOps>>
    /\ UNCHANGED serverVars

\* a click on Refresh: handleRefresh up to its await; the list's
\* handleRefresh has an empty body
ClickRefresh(p) ==
    /\ uiOps < MaxUiOps
    /\ uiOps' = uiOps + 1
    /\ ConnectedView(p)
    /\ ~RefreshDisabled(p)
    /\ isRefreshing' = [isRefreshing EXCEPT ![p] = TRUE]
    /\ pending' = [pending EXCEPT ![p].refresh = @ + 1]
    /\ settled' = NoSettle
    /\ UNCHANGED <<query, connectedPlatforms, connectedAccount, isConnecting,
                   toasts, location>>
    /\ UNCHANGED serverVars

\* onRefresh settled: the success or the error toast, then the finally
RefreshSettles(p, threw) ==
    /\ pending[p].refresh > 0
    /\ pending' = [pending EXCEPT ![p].refresh = @ - 1]
    /\ toasts' = Append(toasts,
          IF threw
          THEN Toast("error", "Failed to refresh " \o PlatformName(p)
                              \o " connection")
          ELSE Toast("success", PlatformName(p) \o " connection refreshed"))
    /\ isRefreshing' = [isRefreshing EXCEPT ![p] = FALSE]
    /\ settled' = [platform |-> p, action |-> "refresh",
                   outcome |-> IF threw THEN "threw" ELSE "resolved"]
    /\ UNCHANGED <<query, connectedPlatforms, connectedAccount, isConnecting,
                   location, uiOps>>
    /\ UNCHANGED serverVars

\* Disconnect confirmed in the dialog: the card's handleDisconnect up to its
\* await, and the list's handleDisconnect it calls; the card sets no state
ClickDisconnect(p) ==
    /\ uiOps < MaxUiOps
    /\ uiOps' = uiOps + 1
    /\ ConnectedView(p)
    /\ pending' = [pending EXCEPT ![p].disconnect = @ + 1]
    /\ connectedPlatforms' = listHandleDisconnect(connectedPlatforms, p)
    /\ settled' = NoSettle
    /\ UNCHANGED <<query, connectedAccount, isConnecting, isRefreshing,
                   toasts, location>>
    /\ UNCHANGED serverVars

\* onDisconnect settled: the success or the error toast
DisconnectSettles(p, threw) ==
    /\ pending[p].disconnect > 0
    /\ pending' = [pending EXCEPT ![p].disconnect = @ - 1]
    /\ toasts' = Append(toasts,
          IF threw
          THEN Toast("error", "Failed to disconnect " \o PlatformName(p))
          ELSE Toast("success", PlatformName(p)
                                \o " disconnected successfully"))
    /\ settled' = [platform |-> p, action |-> "disconnect",
                   outcome |-> IF threw THEN "threw" ELSE "resolved"]
    /\ UNCHANGED <<query, connectedPlatforms, connectedAccount, isConnecting,
                   isRefreshing, location, uiOps>>
    /\ UNCHANGED serverVars

\* what a callback request may carry as `state`: nothing, a value some
\* initiation has generated, or a value of the sender's invention
PresentedStates ==
    {Null, "forged"} \cup {issued[i].value : i \in 1..Len(issued)}

Init ==
    /\ now = 0
    /\ cookies = [u \in SessionUsers |-> [p \in PlatformIds |-> NoCookie]]
    /\ nextUuid = 0
    /\ issued = <<>>
    /\ initResp = NoResponse
    /\ cbCount = 0
    /\ lastCb = NoCallback
    /\ uses = <<>>
    /\ exchangeCalls = 0
    /\ db = <<>>
    /\ tokCounter = 0
    /\ workers = [w \in Workers |-> IdleWorker]
    /\ refreshCalls = <<>>
    /\ lastRefresh = <<>>
    /\ storeOps = 0
    /\ lastSave = NoSave
    /\ lastCheck = NoCheck
    /\ lastRevoke = NoRevoke
    /\ query = Null
    /\ connectedPlatforms = {}
    /\ connectedAccount = [p \in CardPlatforms |-> FALSE]
    /\ isConnecting = [p \in CardPlatforms |-> FALSE]
    /\ isRefreshing = [p \in CardPlatforms |-> FALSE]
    /\ pending = [p \in CardPlatforms |-> NoPending]
    /\ toasts = <<>>
    /\ location = Null
    /\ settled = NoSettle
    /\ uiOps = 0

NextConnect ==
    \/ \E u \in SessionUsers, p \in RoutePlatforms : Initiate(u, p)
    \/ \E u \in SessionUsers, p \in RoutePlatforms, code \in AuthCodes,
          state \in PresentedStates, error \in ProviderErrors,
          ivA \in IVs, ivR \in IVs :
            Callback(u, p, code, state, error, ivA, ivR)
    \/ Tick(MaxTicks)

\* the routes alone: initiation, callback, time
SpecConnect == Init /\ [][NextConnect]_vars

\* what a client other than the browser sends as `state` and as the cookie
\* oauth_state_<platform>: nothing, or a value of its own
SenderStates == {Null, "forged"}

NextRequests ==
    \/ \E u \in SessionUsers, p \in RoutePlatforms : Initiate(u, p)
    \/ \E u \in SessionUsers, p \in RoutePlatforms, code \in AuthCodes,
          state \in SenderStates, stored \in SenderStates,
          error \in ProviderErrors, ivA \in IVs, ivR \in IVs :
            DirectCallback(u, p, code, state, error, stored, ivA, ivR)

\* the routes under the requests of any client, at one moment
SpecRequests == Init /\ [][NextRequests]_vars

FailureCauses == {"terminal", "transient"}

NextStore ==
    \/ \E u \in StoreUsers, p \in StorePlatforms,
          reply \in ConnectReplies(tokCounter + 1), ivA \in IVs, ivR \in IVs :
            Connect(u, p, reply, ivA, ivR)
    \/ \E u \in StoreUsers, p \in StorePlatforms : Disconnect(u, p)
    \/ \E w \in Workers, c \in Readable : RefreshBegin(w, c)
    \/ \E w \in Workers, c \in Readable : RefreshSkip(w, c)
    \/ \E w \in Workers, cause \in FailureCauses : RefreshFails(w, cause)
    \/ \E w \in Workers, reply \in TokenReplies(tokCounter + 1) :
            RefreshReplies(w, reply)
    \/ \E w \in Workers, ivA \in IVs, ivR \in IVs : RefreshCommit(w, ivA, ivR)
    \/ Tick(MaxStoreTicks)

\* the store and the refresh alone
SpecStore == Init /\ [][NextStore]_vars

NextRevoke ==
    \/ \E u \in Users, p \in RegisteredPlatforms,
          reply \in ConnectReplies(tokCounter + 1),
          ivA \in SaveIVs, ivR \in SaveIVs :
            Connect(u, p, reply, ivA, ivR)
    \/ \E u \in Users, p \in RegisteredPlatforms : Disconnect(u, p)

\* connects, with encryption passes that may throw, and disconnects of
\* several users and platforms
SpecRevoke == Init /\ [][NextRevoke]_vars

\* the routes of two registered platforms, used by one browser
NextScoped ==
    \/ \E u \in SessionUsers, p \in RegisteredPlatforms : Initiate(u, p)
    \/ \E u \in SessionUsers, p \in RegisteredPlatforms, code \in AuthCodes,
          state \in PresentedStates, error \in ProviderErrors,
          ivA \in IVs, ivR \in IVs :
            Callback(u, p, code, state, error, ivA, ivR)
    \/ Tick(1)

SpecScoped == Init /\ [][NextScoped]_vars

\* the connections list as the page renders it; its cards show Refresh and
\* Disconnect only in the connected view
NextList ==
    \/ \E q \in PageQueries : LoadPage(q)
    \/ \E p \in CardPlatforms : ClickConnect(p)
    \/ \E p \in CardPlatforms : ConnectResolves(p)

SpecList == Init /\ [][NextList]_vars

\* the card under any parent: rendered connected or not, its callbacks
\* resolving or throwing
NextCard ==
    \/ \E q \in PageQueries : LoadPage(q)
    \/ \E p \in CardPlatforms : ParentRenders(p)
    \/ \E p \in CardPlatforms : ClickConnect(p)
    \/ \E p \in CardPlatforms : ConnectResolves(p)
    \/ \E p \in CardPlatforms : ConnectThrows(p)
    \/ \E p \in CardPlatforms : ClickRefresh(p)
    \/ \E p \in CardPlatforms, threw \in BOOLEAN : RefreshSettles(p, threw)
    \/ \E p \in CardPlatforms : ClickDisconnect(p)
    \/ \E p \in CardPlatforms, threw \in BOOLEAN : DisconnectSettles(p, threw)

SpecCard == Init /\ [][NextCard]_vars

Next ==
    \/ NextConnect
    \/ NextRequests
    \/ NextStore
    \/ NextRevoke
    \/ NextScoped
    \/ NextList
    \/ NextCard

Spec == Init /\ [][Next]_vars

\* ================================================================ claims
\* a callback with a code and a state and no error parameter
ReachesStateCheck(cb) ==
    cb.outcome # Null /\ cb.error = Null /\ cb.code # Null /\ cb.state # Null

\* C1: every issued state value, presented to the callback of its platform
\* within its lifetime and while it is the value issued last for that
\* platform, passes the state check the first time; it fails the check
\* every later time.
C1_VerifiesExactlyOnce ==
    \A i \in 1..Len(uses) : \A j \in 1..Len(uses[i]) :
        /\ (j = 1 /\ uses[i][j].latest /\ uses[i][j].age < maxAge * 1000)
              => uses[i][j].verified
        /\ j > 1 => ~uses[i][j].verified

\* C2: the response the initiation route returns for a registered platform
\* carries the generated state both in the redirect URL and in the cookie
\* oauth_state_<platform>, whose lifetime is 600 s.
C2_ResponseCarriesStateTwice ==
    initResp.status = 307 =>
        /\ initResp.state # Null
        /\ initResp.platform \in DOMAIN initResp.cookies
        /\ initResp.cookies[initResp.platform].value = initResp.state
        /\ initResp.cookies[initResp.platform].maxAge = 600

C4_AtMostOneActive ==
    \A i, j \in 1..Len(db) :
        (/\ i # j
         /\ db[i].userId = db[j].userId
         /\ db[i].platform = db[j].platform)
        => ~(db[i].isActive /\ db[j].isActive)

\* C5: two refresh checks of the same credential never run their provider
\* call or their update at the same time, so one stored generation gets one
\* provider call and one update.
C5_RefreshSerialized ==
    \A w1, w2 \in Workers :
        (/\ w1 # w2
         /\ workers[w1].pc # "idle"
         /\ workers[w2].pc # "idle")
        => workers[w1].conn.id # workers[w2].conn.id

\* C6: once the provider has rejected the refresh token of a credential, the
\* credential is inactive.
C6_TerminalDeactivates ==
    \A id \in 1..Len(db) :
        lastRefresh[id] = "terminal" => ~db[id].isActive

\* a refresh attempt of worker w ends in a failure of the given cause
FailsWith(w, cause) ==
    /\ workers[w].pc = "calling"
    /\ workers'[w].pc = "idle"
    /\ lastRefresh'[workers[w].conn.id] = cause

\* the refresh window as the specification words it
InRefreshWindow(row, t) ==
    /\ row.tokenExpiresAt # NullDate
    /\ row.tokenExpiresAt - t < 300000

\* C7: a refresh attempt that fails for a transient cause changes nothing in
\* the store, and while the credential whose attempt failed is active and
\* within the refresh window, a refresh check of it asks for a refresh again.
C7_TransientLeavesUnchanged ==
    /\ [][\A w \in Workers : FailsWith(w, "transient") => db' = db]_vars
    /\ [](\A id \in 1..Len(db) :
            (/\ lastRefresh[id] = "transient"
             /\ db[id].isActive
             /\ InRefreshWindow(db[id], now))
            => \E c \in Readable : c.id = id /\ NeedsRefresh(c, now))

C7_Witness ==
    \E id \in 1..Len(db) : \E w \in Workers :
        /\ lastRefresh[id] = "transient"
        /\ db[id].isActive
        /\ refreshCalls[id] = 2
        /\ workers[w].pc = "calling"
        /\ workers[w].conn = getConnections(<<db[id]>>, db[id].userId)[1]

\* C8: an update of a refresh that was in flight when its credential was
\* revoked is discarded: the inactive row keeps its tokens and its expiry.
C8_RevokedDiscardsRefresh ==
    [][\A w \in Workers :
        (/\ workers[w].pc = "updating"
         /\ workers'[w].pc = "idle"
         /\ ~db[workers[w].conn.id].isActive)
        => db'[workers[w].conn.id] = db[workers[w].conn.id]]_vars

\* C9: a callback for a registered platform with a code, no error parameter
\* and the issued state within its lifetime ends with the success marker
\* and a new active row for (user, platform) whose expiry is the time of the
\* exchange plus expires_in (null without expires_in), unless the provider
\* or the profile endpoint, once asked, failed.
C9_SuccessfulConnectStores ==
    (/\ ReachesStateCheck(lastCb)
     /\ lastCb.platform \in RegisteredPlatforms
     /\ lastCb.state = LatestIssued(lastCb.user, lastCb.platform)
     /\ lastCb.at - LatestIssuedAt(lastCb.user, lastCb.platform) < maxAge * 1000)
    => \/ lastCb.verified /\ ~(lastCb.replyOk /\ lastCb.profileOk)
       \/ /\ lastCb.outcome = "success"
          /\ \E i \in 1..Len(db) :
                /\ db[i].userId = lastCb.user
                /\ db[i].platform = lastCb.platform
                /\ db[i].isActive
                /\ db[i].connectedAt = lastCb.at
                /\ db[i].tokenExpiresAt =
                      IF lastCb.tokens.expiresIn = Absent THEN NullDate
                      ELSE lastCb.at + lastCb.tokens.expiresIn * 1000

\* C10: a callback presenting the issued state 10 minutes or more after it
\* was issued is answered with an expiry error, not with invalid_state, and
\* sends no request to the token endpoint.
C10_ExpiredIsDistinct ==
    (/\ ReachesStateCheck(lastCb)
     /\ lastCb.state = LatestIssued(lastCb.user, lastCb.platform)
     /\ lastCb.at - LatestIssuedAt(lastCb.user, lastCb.platform) >= maxAge * 1000)
    => (/\ lastCb.outcome = "correlation_expired"
        /\ lastCb.requests = 0)

\* C11: a callback that carries an error parameter, whatever its code, its
\* state and its cookie, is answered with an error redirect; it sends no
\* request to the token endpoint, writes nothing to the store, does not
\* pass the state check and leaves the stored state cookie in place.
C11_ErrorStopsCallback ==
    [][(/\ cbCount' = cbCount + 1
        /\ lastCb'.error # Null)
       => (/\ lastCb'.outcome \notin {Null, "success"}
           /\ exchangeCalls' = exchangeCalls
           /\ tokCounter' = tokCounter
           /\ db' = db
           /\ ~lastCb'.verified
           /\ ~lastCb'.clearCookie
           /\ cookies' = cookies)]_vars

C11_Witness ==
    /\ lastCb.error = "access_denied"
    /\ lastCb.code # Null
    /\ lastCb.state # Null
    /\ lastCb.stored = lastCb.state
    /\ lastCb.platform \in RegisteredPlatforms
    /\ lastCb.outcome = "access_denied"
    /\ exchangeCalls = 0

\* the error codes of the connections view, and the success marker
ClosedOutcomes(platform) ==
    {"success", "missing_parameters", "invalid_state", "connection_failed",
     platform \o "_error"}

\* C12: every callback ends in a redirect that carries the success marker
\* or one of missing_parameters, invalid_state, connection_failed,
\* <platform>_error; no other code is emitted.
C12_ClosedOutcomeSet ==
    cbCount > 0 => lastCb.outcome \in ClosedOutcomes(lastCb.platform)

\* C13: what getConnections returns for a stored credential carries the
\* access token and the refresh token as the plaintext that was saved.
C13_RoundTripPlaintext ==
    \A c \in Readable :
        /\ IsPlain(c.accessToken)
        /\ IsPlain(c.refreshToken)

C15_ListingRedacted ==
    \A c \in Readable :
        /\ Truthy(c.accessToken) => ~IsPlain(c.accessToken)
        /\ Truthy(c.refreshToken) => ~IsPlain(c.refreshToken)

\* the save met an encryption pass that throws
EncryptionFailed(save) ==
    save.ivA = Throws \/ save.ivR = Throws

\* C16: a save in which the encryption of the access token or of the
\* refresh token fails leaves the store as it was and reports the failure.
C16_EncryptionFailureFatal ==
    [][EncryptionFailed(lastSave')
       => (/\ db' = db
           /\ refreshCalls' = refreshCalls
           /\ lastSave'.threw)]_vars

C16_Witness ==
    /\ lastSave.ivA # Throws
    /\ lastSave.ivR = Throws
    /\ lastSave.threw
    /\ Len(db) = 1
    /\ storeOps = 2

C18_SingleExchangeRequest ==
    [][(/\ cbCount' = cbCount + 1
        /\ lastCb'.verified
        /\ lastCb'.platform \in RegisteredPlatforms)
       => (/\ lastCb'.requests = 1
           /\ exchangeCalls' = exchangeCalls + 1
           /\ ~lastCb'.replyOk =>
                 (/\ lastCb'.outcome = "connection_failed"
                  /\ ~lastCb'.saved
                  /\ db' = db))]_vars

C18_Witness ==
    /\ lastCb.verified
    /\ lastCb.platform \in RegisteredPlatforms
    /\ ~lastCb.replyOk
    /\ lastCb.thrown = "Token exchange failed"
    /\ lastCb.outcome = "connection_failed"
    /\ exchangeCalls = 2
    /\ cbCount = 2

\* C19: for a platform that is not registered, the initiation answers with
\* the invalid-platform error and issues no state value; the code exchange
\* fails with an unknown-platform error, sends no request and nothing is
\* stored.
C19_UnknownPlatformRejected ==
    /\ (initResp.platform # Null /\ getProviderConfig(initResp.platform) = Null)
         => (/\ initResp.status = 400
             /\ initResp.state = Null
             /\ DOMAIN initResp.cookies = {})
    /\ (lastCb.verified /\ getProviderConfig(lastCb.platform) = Null)
         => (/\ lastCb.thrown \in {"UnknownPlatform", "Invalid platform"}
             /\ lastCb.requests = 0
             /\ ~lastCb.saved)

\* the rows of (userId, platform)
RowsOf(rows, userId, platform) ==
    {i \in 1..Len(rows) :
        rows[i].userId = userId /\ rows[i].platform = platform}

OwedToast(q) == IF q = "success=true" THEN "success" ELSE "error"

\* C21: a page loaded with success=true shows a success toast and a page
\* loaded with error=<code> surfaces the error: whenever the page was loaded
\* with a query string, a toast of the owed kind has been shown.
C21_QueryIsNotified ==
    query # Null =>
        \E i \in 1..Len(toasts) : toasts[i].kind = OwedToast(query)

\* C22: while an onConnect call of a card is pending the card is connecting
\* and its button disabled, so at most one call is in flight per card; the
\* card leaves the connecting state only when the page is loaded anew or
\* when onConnect throws, and a throw ends in the not-connecting state with
\* the toast `Failed to connect <Platform>`.
C22_ConnectSingleFlight ==
    /\ [](\A p \in CardPlatforms :
            /\ pending[p].connect <= 1
            /\ pending[p].connect = 1 =>
                   isConnecting[p] /\ ConnectDisabled(p))
    /\ [][\A p \in CardPlatforms :
            /\ (isConnecting[p] /\ ~isConnecting'[p]) =>
                   \/ uiOps' = uiOps + 1 /\ toasts' = <<>>
                   \/ settled' = [platform |-> p, action |-> "connect",
                                  outcome |-> "threw"]
            /\ settled' = [platform |-> p, action |-> "connect",
                           outcome |-> "threw"] =>
                   /\ ~isConnecting'[p]
                   /\ ~ConnectDisabled(p)'
                   /\ toasts' = Append(toasts,
                         Toast("error",
                               "Failed to connect " \o PlatformName(p)))]_vars

\* an attempt failed, and the same card was clicked again
C22_Witness ==
    \E p \in CardPlatforms :
        /\ pending[p].connect = 1
        /\ isConnecting[p]
        /\ \E i \in 1..Len(toasts) :
               toasts[i].text = "Failed to connect " \o PlatformName(p)

\* the loading states a card has
CardLoading(p) == isConnecting[p] \/ isRefreshing[p]

\* C23: every asynchronous action of a card shows a loading state while it
\* is pending; isRefreshing is true exactly while an onRefresh call is
\* pending, and each settled refresh shows exactly one toast.
C23_LoadingWhilePending ==
    /\ [](\A p \in CardPlatforms :
            /\ pending[p].connect > 0 => isConnecting[p]
            /\ isRefreshing[p] <=> pending[p].refresh > 0
            /\ pending[p].disconnect > 0 => CardLoading(p))
    /\ [][\A p \in CardPlatforms :
            settled'.platform = p /\ settled'.action = "refresh" =>
                /\ ~isRefreshing'[p]
                /\ Len(toasts') = Len(toasts) + 1]_vars

C25_StateScopedPerPlatform ==
    [][(cbCount' = cbCount + 1 /\ ReachesStateCheck(lastCb')) =>
         LET cb == lastCb'
             latest == LatestIssued(cb.user, cb.platform)
             issuedAt == LatestIssuedAt(cb.user, cb.platform)
         IN  /\ cb.verified => cb.state = latest
             /\ (/\ cb.state = latest
                 /\ cb.at - issuedAt < maxAge * 1000
                 /\ \A i \in 1..Len(issued) :
                        issued[i].value = cb.state => uses[i] = <<>>)
                  => cb.verified]_vars

\* C26: a refresh that commits stores the provider's new refresh token if
\* one was returned and the previous one otherwise; the expiry it stores is
\* the time of the refresh plus expires_in, and null when the reply has no
\* expires_in; a credential whose expiry is null is not refreshed again.
C26_RefreshCommitStores ==
    /\ [](lastCheck.id # 0 /\ lastCheck.expiresAt = NullDate
            => ~lastCheck.called)
    /\ [][\A w \in Workers :
            /\ (workers[w].pc = "calling" /\ workers'[w].pc = "updating") =>
                  LET newTokens == workers'[w].newTokens
                  IN  workers'[w].patch.tokenExpiresAt =
                         IF newTokens.expiresIn = Absent
                         THEN NullDate
                         ELSE now + newTokens.expiresIn * 1000
            /\ (workers[w].pc = "updating" /\ workers'[w].pc = "idle") =>
                  LET id == workers[w].conn.id
                      newTokens == workers[w].newTokens
                  IN  /\ decryptToken(db'[id].refreshToken) =
                             IF Truthy(newTokens.refreshToken)
                             THEN newTokens.refreshToken
                             ELSE decryptToken(db[id].refreshToken)
                      /\ db'[id].tokenExpiresAt =
                             workers[w].patch.tokenExpiresAt]_vars

====
